---- MODULE Spec2Model ----
(***************************************************************************)
(* Model of the vb6-antlr projection pipeline:                             *)
(*   VB6ParserService.parse  -> ParserOutput (tree or None, diagnostics)   *)
(*   IRBuilder.build         -> IRModule (ModuleCollector walks the tree)  *)
(*   JsonSerializer.dumps    -> JSON payload                               *)
(* Texts are sequences of one-character strings, so that strip, lower,     *)
(* startswith, replace, int() and float() are computed, not assumed.       *)
(* A Python Optional is a sequence of length at most one: None is <<>>,    *)
(* a present value x is <<x>>.                                             *)
(***************************************************************************)
EXTENDS Integers, Sequences, FiniteSets, TLC

VARIABLES
    pc,           \* position of the pipeline / of the function under study
    source_path,  \* ParserOutput.source_path (its final component)
    parse_tree,   \* ParserOutput.parse_tree: "None" or "Tree"
    diagnostics,  \* ParserOutput.diagnostics
    walked,       \* declaration nodes of the tree the walker has left so far
    collector,    \* the ModuleCollector's fields
    doc,          \* Optional IRModule returned by IRBuilder.build
    payload,      \* Optional payload of JsonSerializer.dumps
    events,       \* syntaxError events of one parse job, in detection order
    lexer_diags,  \* lexer_listener.diagnostics
    parser_diags, \* parser_listener.diagnostics
    lit_text,     \* argument of _normalize_literal under study
    lit_value,    \* Optional result of _normalize_literal(lit_text)
    lit_again,    \* Optional result of normalizing the re-rendered value
    collector2,   \* the ModuleCollector of a second build of the same envelope
    replayed,     \* nodes of the tree the second walk has left
    doc2,         \* Optional IRModule returned by the second build
    units,        \* main: the resolved source files, sorted
    modules,      \* main: the IRModule built for each unit
    out_dir,      \* main: the files of the output directory, name -> payload
    written,      \* dump_many: the targets written so far
    oserror,      \* main: whether writing raised OSError
    exit_code     \* Optional exit code returned by main

vars == <<pc, source_path, parse_tree, diagnostics, walked, collector, doc,
          payload, events, lexer_diags, parser_diags, lit_text, lit_value,
          lit_again, collector2, replayed, doc2, units, modules, out_dir,
          written, oserror, exit_code>>

rebuild_vars == <<collector2, replayed, doc2>>
main_vars == <<units, modules, out_dir, written, oserror, exit_code>>

(***************************************************************************)
(* Bounds                                                                  *)
(***************************************************************************)
MaxLen == 4      \* longest literal text drawn for _normalize_literal
MaxTree == 2     \* declaration nodes of a tree in the whole-pipeline runs
MaxDecls == 3    \* declaration nodes of a tree in the per-handler runs
MaxDiags == 2    \* diagnostics carried by an envelope
MaxErrors == 3   \* syntaxError events of one parse job
MaxUnits == 2    \* source files resolved for one run of main

(***************************************************************************)
(* Optionals and texts                                                     *)
(***************************************************************************)
None == <<>>
Some(x) == <<x>>
IsNone(o) == o = <<>>
Get(o) == o[1]

DQ == "\""
SQ == "'"
SP == " "

UpperChars == <<"A","B","C","D","E","F","G","H","I","J","K","L","M",
                "N","O","P","Q","R","S","T","U","V","W","X","Y","Z">>
LowerChars == <<"a","b","c","d","e","f","g","h","i","j","k","l","m",
                "n","o","p","q","r","s","t","u","v","w","x","y","z">>
DigitChars == <<"0","1","2","3","4","5","6","7","8","9">>

\* str.lower() on one character
LowerChar(c) ==
    IF \E i \in 1..26 : UpperChars[i] = c
    THEN LowerChars[CHOOSE i \in 1..26 : UpperChars[i] = c]
    ELSE c

\* str.lower()
Lower(s) == [i \in 1..Len(s) |-> LowerChar(s[i])]

\* str.strip(): leading and trailing blanks removed
RECURSIVE LStrip(_)
LStrip(s) == IF s # <<>> /\ s[1] = SP THEN LStrip(Tail(s)) ELSE s
RECURSIVE RStrip(_)
RStrip(s) ==
    IF s # <<>> /\ s[Len(s)] = SP THEN RStrip(SubSeq(s, 1, Len(s) - 1)) ELSE s
Strip(s) == RStrip(LStrip(s))

\* str.replace(c + c, c): left to right, non-overlapping
RECURSIVE Undouble(_, _)
Undouble(s, c) ==
    IF Len(s) < 2 THEN s
    ELSE IF s[1] = c /\ s[2] = c
         THEN <<c>> \o Undouble(SubSeq(s, 3, Len(s)), c)
         ELSE <<s[1]>> \o Undouble(Tail(s), c)

\* the inverse used by the canonical re-rendering: every c doubled
RECURSIVE Double(_, _)
Double(s, c) ==
    IF s = <<>> THEN <<>>
    ELSE (IF s[1] = c THEN <<c, c>> ELSE <<s[1]>>) \o Double(Tail(s), c)

HasChar(s, c) == \E i \in 1..Len(s) : s[i] = c
IsDigit(c) == \E i \in 1..10 : DigitChars[i] = c
DigitVal(c) == (CHOOSE i \in 1..10 : DigitChars[i] = c) - 1
AllDigits(s) == s # <<>> /\ \A i \in 1..Len(s) : IsDigit(s[i])

RECURSIVE DigitsVal(_)
DigitsVal(s) ==
    IF s = <<>> THEN 0
    ELSE 10 * DigitsVal(SubSeq(s, 1, Len(s) - 1)) + DigitVal(s[Len(s)])

RECURSIVE Pow10(_)
Pow10(k) == IF k = 0 THEN 1 ELSE 10 * Pow10(k - 1)

\* decimal text of a natural number
RECURSIVE NatText(_)
NatText(n) ==
    IF n < 10 THEN <<DigitChars[n + 1]>>
    ELSE NatText(n \div 10) \o <<DigitChars[(n % 10) + 1]>>

IntText(n) == IF n < 0 THEN <<"-">> \o NatText(-n) ELSE NatText(n)

(***************************************************************************)
(* Python values: bool, int, float, str and None.  A float is the decimal  *)
(* n / 10^k with no trailing zero in its k fractional digits.              *)
(***************************************************************************)
BoolV(b) == [t |-> "bool", b |-> b, n |-> 0, k |-> 0, s |-> <<>>]
IntV(n) == [t |-> "int", b |-> FALSE, n |-> n, k |-> 0, s |-> <<>>]
StrV(s) == [t |-> "str", b |-> FALSE, n |-> 0, k |-> 0, s |-> s]
NoneV == [t |-> "none", b |-> FALSE, n |-> 0, k |-> 0, s |-> <<>>]

RECURSIVE FloatV(_, _)
FloatV(n, k) ==
    IF k > 0 /\ n % 10 = 0 THEN FloatV(n \div 10, k - 1)
    ELSE [t |-> "float", b |-> FALSE, n |-> n, k |-> k, s |-> <<>>]

\* int(raw) on a stripped text: optional sign, then decimal digits
Unsigned(s) == IF s # <<>> /\ s[1] \in {"+", "-"} THEN Tail(s) ELSE s
Sign(s) == IF s # <<>> /\ s[1] = "-" THEN -1 ELSE 1
IsIntText(s) == AllDigits(Unsigned(s))
ParseInt(s) == Sign(s) * DigitsVal(Unsigned(s))

\* float(raw) on a stripped text: optional sign, digits with at most one
\* point and at least one digit (exponents, inf and nan lie outside the
\* alphabet the literals are drawn from)
DotAt(s) == CHOOSE i \in 1..Len(s) : s[i] = "."
IntPart(s) == IF HasChar(s, ".") THEN SubSeq(s, 1, DotAt(s) - 1) ELSE s
FracPart(s) == IF HasChar(s, ".") THEN SubSeq(s, DotAt(s) + 1, Len(s)) ELSE <<>>
IsFloatText(s) ==
    LET u == Unsigned(s) IN
    /\ u # <<>>
    /\ \A i \in 1..Len(u) : IsDigit(u[i]) \/ u[i] = "."
    /\ Cardinality({i \in 1..Len(u) : u[i] = "."}) <= 1
    /\ \E i \in 1..Len(u) : IsDigit(u[i])
ParseFloat(s) ==
    LET u == Unsigned(s) IN
    FloatV(Sign(s) * DigitsVal(IntPart(u) \o FracPart(u)), Len(FracPart(u)))

TrueText == <<"t","r","u","e">>
FalseText == <<"f","a","l","s","e">>

\* a faulty _normalize_literal: the passthrough returns text, not raw
NormalizeLiteralUntrimmed(text) ==
    LET raw == Strip(text)
        lowered == Lower(raw)
    IN  IF raw = <<>> THEN StrV(raw)
        ELSE IF lowered = TrueText THEN BoolV(TRUE)
        ELSE IF lowered = FalseText THEN BoolV(FALSE)
        ELSE IF \/ (raw[1] = DQ /\ raw[Len(raw)] = DQ)
                \/ (raw[1] = SQ /\ raw[Len(raw)] = SQ)
             THEN StrV(Undouble(Undouble(SubSeq(raw, 2, Len(raw) - 1), DQ), SQ))
        ELSE IF ~(HasChar(raw, "#") \/ raw[1] = "&") /\ IsIntText(raw)
             THEN IntV(ParseInt(raw))
        ELSE IF IsFloatText(raw) THEN ParseFloat(raw)
        ELSE StrV(text)

\* ModuleCollector._normalize_literal
NormalizeLiteral(text) ==
    LET raw == Strip(text)
        lowered == Lower(raw)
    IN  IF raw = <<>> THEN StrV(raw)
        ELSE IF lowered = TrueText THEN BoolV(TRUE)
        ELSE IF lowered = FalseText THEN BoolV(FALSE)
        ELSE IF \/ (raw[1] = DQ /\ raw[Len(raw)] = DQ)
                \/ (raw[1] = SQ /\ raw[Len(raw)] = SQ)
             THEN StrV(Undouble(Undouble(SubSeq(raw, 2, Len(raw) - 1), DQ), SQ))
        ELSE IF ~(HasChar(raw, "#") \/ raw[1] = "&") /\ IsIntText(raw)
             THEN IntV(ParseInt(raw))
        ELSE IF IsFloatText(raw) THEN ParseFloat(raw)
        ELSE StrV(raw)

\* str(value) and repr of a float
FloatText(v) ==
    LET a == IF v.n < 0 THEN -v.n ELSE v.n
        whole == NatText(a \div Pow10(v.k))
        frac == a % Pow10(v.k)
        pad == [i \in 1..(v.k - Len(NatText(frac))) |-> "0"]
    IN  (IF v.n < 0 THEN <<"-">> ELSE <<>>) \o whole \o <<".">>
        \o (IF v.k = 0 THEN <<"0">> ELSE pad \o NatText(frac))

PyStr(v) ==
    CASE v.t = "bool" -> IF v.b THEN <<"T","r","u","e">> ELSE <<"F","a","l","s","e">>
      [] v.t = "int" -> IntText(v.n)
      [] v.t = "float" -> FloatText(v)
      [] v.t = "str" -> v.s
      [] OTHER -> <<"N","o","n","e">>

\* the canonical re-rendering of a normalized value: boolean -> True/False,
\* integer -> decimal text, float -> repr, string -> requoted with doubling
Render(v) ==
    IF v.t = "str" THEN <<DQ>> \o Double(v.s, DQ) \o <<DQ>> ELSE PyStr(v)

(***************************************************************************)
(* Literal normalization under study: one text in, normalized, rendered    *)
(* and normalized again.                                                   *)
(***************************************************************************)
LitChars == {DQ, SQ, "a", "1", ".", "#", "&", SP}

RECURSIVE TextsUpTo(_)
TextsUpTo(n) ==
    IF n = 0 THEN {<<>>}
    ELSE LET shorter == TextsUpTo(n - 1)
         IN  shorter \cup {Append(s, c) : s \in {x \in shorter : Len(x) = n - 1},
                                          c \in LitChars}

LitWords == { <<"T","r","u","e">>, <<"f","a","l","s","e">>,
              <<SP,"T","R","U","E",SP>>, <<"F","a","l","s","e">>,
              <<DQ,"T","r","u","e",DQ>>, <<"0","1","0">>, <<"1",".","5","0">>,
              <<"&","H","1","0">>, <<"1","0","#">> }

LitTexts == TextsUpTo(MaxLen) \cup LitWords

Idle ==
    /\ source_path = <<>>
    /\ parse_tree = "None"
    /\ diagnostics = <<>>
    /\ walked = <<>>
    /\ collector = None
    /\ doc = None
    /\ payload = None

NoParse ==
    /\ events = <<>>
    /\ lexer_diags = <<>>
    /\ parser_diags = <<>>

NoLit ==
    /\ lit_text = <<>>
    /\ lit_value = None
    /\ lit_again = None

NoRebuild ==
    /\ collector2 = None
    /\ replayed = 0
    /\ doc2 = None

NoMain ==
    /\ units = <<>>
    /\ modules = <<>>
    /\ out_dir = <<>>
    /\ written = <<>>
    /\ oserror = FALSE
    /\ exit_code = None

InitLit ==
    /\ pc = "lit"
    /\ Idle
    /\ NoParse
    /\ NoRebuild
    /\ NoMain
    /\ lit_text \in LitTexts
    /\ lit_value = None
    /\ lit_again = None

Normalize ==
    /\ pc = "lit"
    /\ pc' = "normalized"
    /\ lit_value' = Some(NormalizeLiteral(lit_text))
    /\ UNCHANGED <<source_path, parse_tree, diagnostics, walked, collector, doc,
                   payload, events, lexer_diags, parser_diags, lit_text, lit_again,
                   rebuild_vars, main_vars>>

Renormalize ==
    /\ pc = "normalized"
    /\ pc' = "renormalized"
    /\ lit_again' = Some(NormalizeLiteral(Render(Get(lit_value))))
    /\ UNCHANGED <<source_path, parse_tree, diagnostics, walked, collector, doc,
                   payload, events, lexer_diags, parser_diags, lit_text, lit_value,
                   rebuild_vars, main_vars>>

NextLit == Normalize \/ Renormalize

SpecLit == InitLit /\ [][NextLit]_vars

(***************************************************************************)
(* Parse tree nodes, as the listener sees them: the children a handler     *)
(* asks for, each possibly missing after error recovery.                   *)
(***************************************************************************)
Text_vb_name == <<"v","b","_","n","a","m","e">>
Text_VB_Name == <<"V","B","_","N","a","m","e">>
Text_VB_NAME == <<"V","B","_","N","A","M","E">>
Text_VB_Exposed == <<"V","B","_","E","x","p","o","s","e","d">>
Text_Foo == <<"F","o","o">>
Text_Bar == <<"B","a","r">>
Text_Private == <<"P","r","i","v","a","t","e">>
Text_Public == <<"P","u","b","l","i","c">>
Text_AsInteger == <<"A","s",SP,"I","n","t","e","g","e","r">>
Text_As == <<"A","s">>
Quoted(s) == <<DQ>> \o s \o <<DQ>>

RECURSIVE Join(_)
Join(texts) ==
    IF texts = <<>> THEN <<>>
    ELSE IF Len(texts) = 1 THEN texts[1]
    ELSE texts[1] \o <<",">> \o Join(Tail(texts))

Node(kind) ==
    [kind |-> kind,
     start |-> Some([line |-> 1, column |-> 0]),  \* ctx.start
     stop |-> Some(1),                            \* ctx.stop.line
     text |-> <<>>,                               \* ctx.getText()
     name |-> None,        \* implicitCallStmt_InStmt / ambiguousIdentifier
     literals |-> <<>>,    \* literal() / integerLiteral() / doubleLiteral()
     flag |-> FALSE,       \* CLASS() / BINARY() / STATIC()
     visibility |-> None,  \* visibility()
     argList |-> None,     \* argList(): Optional sequence of arg nodes
     asType |-> None]      \* asTypeClause()

Arg(name, byval, optional, asType, default) ==
    [name |-> name, OPTIONAL |-> optional, PARAMARRAY |-> FALSE, BYVAL |-> byval,
     BYREF |-> FALSE, asType |-> asType, typeHint |-> None,
     argDefaultValue |-> default # None, valueStmt |-> default]

HeaderNode(class, version) ==
    [Node("moduleHeader") EXCEPT !.flag = class, !.literals = version]
AttributeNode(name, lits) ==
    [Node("attributeStmt") EXCEPT
        !.name = name, !.literals = lits,
        !.text = (IF IsNone(name) THEN <<>> ELSE Get(name)) \o <<"=">> \o Join(lits)]
OptionBaseNode(lits) == [Node("optionBaseStmt") EXCEPT !.literals = lits]
OptionCompareNode(binary) == [Node("optionCompareStmt") EXCEPT !.flag = binary]
OptionExplicitNode == Node("optionExplicitStmt")
OptionPrivateModuleNode == Node("optionPrivateModuleStmt")
RoutineNode(kind, name, vis, static, args, asType) ==
    [Node(kind) EXCEPT !.name = name, !.visibility = vis, !.flag = static,
                       !.argList = args, !.asType = asType]
NoPosition(n) == [n EXCEPT !.start = None, !.stop = None]

RoutineKinds ==
    {"subStmt", "functionStmt", "propertyGetStmt", "propertyLetStmt",
     "propertySetStmt"}
OptionKinds ==
    {"optionBaseStmt", "optionCompareStmt", "optionExplicitStmt",
     "optionPrivateModuleStmt"}

(***************************************************************************)
(* ModuleCollector                                                         *)
(***************************************************************************)
\* ModuleCollector.__init__
NewCollector ==
    [module_name |-> None,
     module_version |-> None,
     header_kind |-> None,
     attributes |-> <<>>,
     options |-> <<>>,
     members |-> <<>>,
     is_private_module |-> FALSE,
     option_seen |-> {}]

\* ModuleCollector._location
Location(n) == n.start

\* Python ==, as used by the membership test of the _option_seen set:
\* bool, int and float compare by numeric value, str by content
IsNumber(v) == v.t \in {"bool", "int", "float"}
Numerator(v) == IF v.t = "bool" THEN (IF v.b THEN 1 ELSE 0) ELSE v.n
PyEq(v, w) ==
    IF IsNumber(v) /\ IsNumber(w)
    THEN Numerator(v) * Pow10(w.k) = Numerator(w) * Pow10(v.k)
    ELSE v.t = w.t /\ v.s = w.s

\* ModuleCollector._hashable, on the scalar values options carry
Hashable(v) == v

\* ModuleCollector.exitModuleHeader
ExitModuleHeader(c, n) ==
    [c EXCEPT
        !.module_version = IF n.literals # <<>> THEN Some(n.literals[1]) ELSE @,
        !.header_kind = IF n.flag THEN Some("class") ELSE @]

\* the assignment of exitAttributeStmt's last two lines
SetModuleName(old, name, values) ==
    IF Lower(name) = Text_vb_name /\ values # <<>>
    THEN Some(PyStr(values[1]))
    ELSE old

\* ModuleCollector.exitAttributeStmt, when the name node is there
ExitAttributeStmt(c, n) ==
    LET name == Get(n.name)
        values == [i \in 1..Len(n.literals) |-> NormalizeLiteral(n.literals[i])]
        record == [name |-> name, values |-> values, location |-> Location(n),
                   raw |-> n.text]
    IN  [c EXCEPT !.attributes = Append(@, record),
                  !.module_name = SetModuleName(@, name, values)]

\* ctx.implicitCallStmt_InStmt() is None: .getText() raises AttributeError
Raises(n) == n.kind = "attributeStmt" /\ IsNone(n.name)

\* the membership test `key in self._option_seen`
OptionSeen(seen, option_type, value) ==
    \E key \in seen : key[1] = option_type /\ PyEq(key[2], Hashable(value))

\* a faulty _add_option: the dedup key is the option type alone
AddOptionByType(c, option_type, value, n) ==
    IF \E key \in c.option_seen : key[1] = option_type THEN c
    ELSE LET record == [type |-> option_type, location |-> Location(n),
                        value |-> IF value = NoneV THEN None ELSE Some(value)]
         IN  [c EXCEPT !.options = Append(@, record),
                       !.option_seen = @ \cup {<<option_type, Hashable(value)>>}]

\* ModuleCollector._add_option; the "value" key is left out for None
AddOption(c, option_type, value, n) ==
    IF OptionSeen(c.option_seen, option_type, value) THEN c
    ELSE LET record == [type |-> option_type, location |-> Location(n),
                        value |-> IF value = NoneV THEN None ELSE Some(value)]
         IN  [c EXCEPT !.options = Append(@, record),
                       !.option_seen = @ \cup {<<option_type, Hashable(value)>>}]

\* ModuleCollector.exitOptionBaseStmt
ExitOptionBaseStmt(c, n) ==
    AddOption(c, "base",
              IF n.literals # <<>> THEN NormalizeLiteral(n.literals[1]) ELSE NoneV,
              n)

\* ModuleCollector.exitOptionCompareStmt
ExitOptionCompareStmt(c, n) ==
    AddOption(c, "compare",
              StrV(IF n.flag THEN <<"b","i","n","a","r","y">> ELSE <<"t","e","x","t">>),
              n)

\* ModuleCollector.exitOptionExplicitStmt
ExitOptionExplicitStmt(c, n) == AddOption(c, "explicit", BoolV(TRUE), n)

\* a faulty handler: the option is recorded, the flag is left alone
ExitOptionPrivateModuleStmtNoFlag(c, n) ==
    AddOption(c, "privateModule", BoolV(TRUE), n)

\* ModuleCollector.exitOptionPrivateModuleStmt
ExitOptionPrivateModuleStmt(c, n) ==
    AddOption([c EXCEPT !.is_private_module = TRUE], "privateModule", BoolV(TRUE), n)

\* ModuleCollector._normalize_type_clause
NormalizeTypeClause(clause) ==
    IF IsNone(clause) THEN None
    ELSE LET text == Strip(Get(clause))
             rest == IF Len(text) >= 2 /\ Lower(SubSeq(text, 1, 2)) = <<"a","s">>
                     THEN Strip(SubSeq(text, 3, Len(text)))
                     ELSE text
         IN  IF rest = <<>> THEN None ELSE Some(rest)

\* ModuleCollector._normalize_visibility
NormalizeVisibility(value) ==
    IF IsNone(value) \/ Get(value) = <<>> THEN None ELSE Some(Lower(Get(value)))

\* one round of the loop of ModuleCollector._collect_parameters
Parameter(arg) ==
    [name |-> arg.name,
     modifiers |-> (IF arg.OPTIONAL THEN <<"Optional">> ELSE <<>>)
                   \o (IF arg.PARAMARRAY THEN <<"ParamArray">> ELSE <<>>)
                   \o (IF arg.BYVAL THEN <<"ByVal">> ELSE <<>>)
                   \o (IF arg.BYREF THEN <<"ByRef">> ELSE <<>>),
     type |-> NormalizeTypeClause(arg.asType),
     typeHint |-> arg.typeHint,
     defaultValue |-> IF arg.argDefaultValue /\ ~IsNone(arg.valueStmt)
                      THEN Some(NormalizeLiteral(Get(arg.valueStmt)))
                      ELSE None]

\* ModuleCollector._collect_parameters
CollectParameters(arg_list) == [i \in 1..Len(arg_list) |-> Parameter(arg_list[i])]

\* ModuleCollector._build_routine; returnType is set by the callers that
\* have one (has_returnType says whether the key is there)
BuildRoutine(n, kind) ==
    [kind |-> kind,
     name |-> n.name,
     visibility |-> NormalizeVisibility(n.visibility),
     modifiers |-> IF n.flag THEN <<"Static">> ELSE <<>>,
     parameters |-> IF IsNone(n.argList) THEN <<>>
                    ELSE CollectParameters(Get(n.argList)),
     startLine |-> IF IsNone(n.start) THEN None ELSE Some(Get(n.start).line),
     endLine |-> n.stop,
     has_returnType |-> FALSE,
     returnType |-> None]

WithReturnType(member, n) ==
    [member EXCEPT !.has_returnType = TRUE,
                   !.returnType = NormalizeTypeClause(n.asType)]

\* a faulty append: a member of the same kind and name is not added again
AppendMemberUnique(c, member) ==
    IF \E i \in 1..Len(c.members) :
          c.members[i].kind = member.kind /\ c.members[i].name = member.name
    THEN c
    ELSE [c EXCEPT !.members = Append(@, member)]
\* self.members.append(member)
AppendMember(c, member) == [c EXCEPT !.members = Append(@, member)]

\* ModuleCollector.exitSubStmt
ExitSubStmt(c, n) == AppendMember(c, BuildRoutine(n, "sub"))
\* ModuleCollector.exitFunctionStmt
ExitFunctionStmt(c, n) ==
    AppendMember(c, WithReturnType(BuildRoutine(n, "function"), n))
\* ModuleCollector.exitPropertyGetStmt
ExitPropertyGetStmt(c, n) ==
    AppendMember(c, WithReturnType(BuildRoutine(n, "propertyGet"), n))
\* ModuleCollector.exitPropertyLetStmt
ExitPropertyLetStmt(c, n) == AppendMember(c, BuildRoutine(n, "propertyLet"))
\* ModuleCollector.exitPropertySetStmt
ExitPropertySetStmt(c, n) == AppendMember(c, BuildRoutine(n, "propertySet"))

\* the listener callback ParseTreeWalker.walk makes on leaving node n
ExitNode(c, n) ==
    CASE n.kind = "moduleHeader" -> ExitModuleHeader(c, n)
      [] n.kind = "attributeStmt" -> ExitAttributeStmt(c, n)
      [] n.kind = "optionBaseStmt" -> ExitOptionBaseStmt(c, n)
      [] n.kind = "optionCompareStmt" -> ExitOptionCompareStmt(c, n)
      [] n.kind = "optionExplicitStmt" -> ExitOptionExplicitStmt(c, n)
      [] n.kind = "optionPrivateModuleStmt" -> ExitOptionPrivateModuleStmt(c, n)
      [] n.kind = "subStmt" -> ExitSubStmt(c, n)
      [] n.kind = "functionStmt" -> ExitFunctionStmt(c, n)
      [] n.kind = "propertyGetStmt" -> ExitPropertyGetStmt(c, n)
      [] n.kind = "propertyLetStmt" -> ExitPropertyLetStmt(c, n)
      [] n.kind = "propertySetStmt" -> ExitPropertySetStmt(c, n)
      [] OTHER -> c

(***************************************************************************)
(* IRBuilder and JsonSerializer                                            *)
(***************************************************************************)
DEFAULT_SCHEMA_VERSION == <<"1",".","0",".","0">>

\* pathlib: the last dot of the name splits stem and suffix, unless it is
\* the first or the last character
LastDot(name) ==
    IF HasChar(name, ".")
    THEN CHOOSE i \in 1..Len(name) :
            name[i] = "." /\ \A j \in (i + 1)..Len(name) : name[j] # "."
    ELSE 0
LastSlash(path) ==
    IF HasChar(path, "/")
    THEN CHOOSE i \in 1..Len(path) :
            path[i] = "/" /\ \A j \in (i + 1)..Len(path) : path[j] # "/"
    ELSE 0
\* Path.name: the final component of the path
BaseName(path) == SubSeq(path, LastSlash(path) + 1, Len(path))
HasSuffix(name) == 1 < LastDot(name) /\ LastDot(name) < Len(name)
\* Path.stem
Stem(path) ==
    LET name == BaseName(path)
    IN  IF HasSuffix(name) THEN SubSeq(name, 1, LastDot(name) - 1) ELSE name
\* Path.suffix
Suffix(path) ==
    LET name == BaseName(path)
    IN  IF HasSuffix(name) THEN SubSeq(name, LastDot(name), Len(name)) ELSE <<>>

\* the mapping dict of _infer_module_kind, with its "standard" default
MappingGet(suffix) ==
    CASE suffix = <<".","b","a","s">> -> "standard"
      [] suffix = <<".","c","l","s">> -> "class"
      [] suffix = <<".","f","r","m">> -> "form"
      [] suffix = <<".","c","t","l">> -> "control"
      [] OTHER -> "standard"

\* a faulty inference: the suffix is looked up as written, not lower-cased
InferModuleKindCaseSensitive(path, header_kind, is_private) ==
    IF ~IsNone(header_kind) THEN Get(header_kind)
    ELSE LET kind == MappingGet(Suffix(path))
         IN  IF kind = "standard" /\ is_private THEN "privateModule" ELSE kind

\* IRBuilder._infer_module_kind
InferModuleKind(path, header_kind, is_private) ==
    IF ~IsNone(header_kind) THEN Get(header_kind)
    ELSE LET kind == MappingGet(Lower(Suffix(path)))
         IN  IF kind = "standard" /\ is_private THEN "privateModule" ELSE kind

IRModule(path, module, diags) ==
    [source_path |-> path,
     body |-> [schemaVersion |-> DEFAULT_SCHEMA_VERSION, module |-> module],
     diagnostics |-> diags]

\* IRBuilder.build, parse_tree is None: the module dict has no
\* isPrivateModule key and no version key
BuildWithoutTree(path, diags) ==
    IRModule(path,
             [name |-> Stem(path),
              kind |-> InferModuleKind(path, None, FALSE),
              attributes |-> <<>>,
              options |-> <<>>,
              members |-> <<>>,
              isPrivateModule |-> None,
              version |-> None],
             diags)

\* collector.module_name or output.source_path.stem
NameOrStem(module_name, path) ==
    IF IsNone(module_name) \/ Get(module_name) = <<>> THEN Stem(path)
    ELSE Get(module_name)

\* IRBuilder.build, after the walk
BuildFromCollector(path, c, diags) ==
    IRModule(path,
             [name |-> NameOrStem(c.module_name, path),
              kind |-> InferModuleKind(path, c.header_kind, c.is_private_module),
              attributes |-> c.attributes,
              options |-> c.options,
              members |-> c.members,
              isPrivateModule |-> Some(c.is_private_module),
              version |-> c.module_version],
             diags)

\* Diagnostic
Diagnostic(severity, message, path, line, column) ==
    [severity |-> severity, message |-> message, source_path |-> path,
     line |-> line, column |-> column]

\* Diagnostic.to_dict
ToDict(d) ==
    [severity |-> d.severity, message |-> d.message, sourcePath |-> d.source_path,
     line |-> d.line, column |-> d.column]

\* a faulty serializer: the diagnostics come out last to first
DumpsPayloadReversed(m) ==
    [schemaVersion |-> m.body.schemaVersion,
     source |-> m.source_path,
     body |-> m.body,
     diagnostics |-> [i \in 1..Len(m.diagnostics) |->
                         ToDict(m.diagnostics[Len(m.diagnostics) + 1 - i])]]

\* the payload of JsonSerializer.dumps
DumpsPayload(m) ==
    [schemaVersion |-> m.body.schemaVersion,
     source |-> m.source_path,
     body |-> m.body,
     diagnostics |-> [i \in 1..Len(m.diagnostics) |-> ToDict(m.diagnostics[i])]]

(***************************************************************************)
(* IRBuilder.build and JsonSerializer.dumps on one envelope.  The tree is  *)
(* drawn node by node as the walker reaches it; the walk may end after any *)
(* node.                                                                   *)
(***************************************************************************)
\* build, parse_tree is None
BuildNoTree ==
    /\ pc = "start"
    /\ parse_tree = "None"
    /\ doc' = Some(BuildWithoutTree(source_path, diagnostics))
    /\ pc' = "built"
    /\ UNCHANGED <<source_path, parse_tree, diagnostics, walked, collector, payload,
                   events, lexer_diags, parser_diags, lit_text, lit_value, lit_again,
                   rebuild_vars, main_vars>>

\* build: collector = ModuleCollector(output.source_path)
StartWalk ==
    /\ pc = "start"
    /\ parse_tree = "Tree"
    /\ collector' = Some(NewCollector)
    /\ pc' = "walking"
    /\ UNCHANGED <<source_path, parse_tree, diagnostics, walked, doc, payload,
                   events, lexer_diags, parser_diags, lit_text, lit_value, lit_again,
                   rebuild_vars, main_vars>>

\* build: walker.walk leaves the next declaration node; an exception of the
\* handler leaves build without a document
Walk(menu, bound) ==
    /\ pc = "walking"
    /\ Len(walked) < bound
    /\ \E n \in menu :
          /\ walked' = Append(walked, n)
          /\ IF Raises(n)
             THEN pc' = "raised" /\ UNCHANGED collector
             ELSE pc' = pc /\ collector' = Some(ExitNode(Get(collector), n))
    /\ UNCHANGED <<source_path, parse_tree, diagnostics, doc, payload,
                   events, lexer_diags, parser_diags, lit_text, lit_value, lit_again,
                   rebuild_vars, main_vars>>

\* build: the walk is over, the module payload is assembled and returned
EndWalk ==
    /\ pc = "walking"
    /\ doc' = Some(BuildFromCollector(source_path, Get(collector), diagnostics))
    /\ pc' = "built"
    /\ UNCHANGED <<source_path, parse_tree, diagnostics, walked, collector, payload,
                   events, lexer_diags, parser_diags, lit_text, lit_value, lit_again,
                   rebuild_vars, main_vars>>

\* JsonSerializer.dumps
Dumps ==
    /\ pc = "built"
    /\ payload' = Some(DumpsPayload(Get(doc)))
    /\ pc' = "dumped"
    /\ UNCHANGED <<source_path, parse_tree, diagnostics, walked, collector, doc,
                   events, lexer_diags, parser_diags, lit_text, lit_value, lit_again,
                   rebuild_vars, main_vars>>

Files ==
    { <<"m",".","b","a","s">>, <<"M",".","B","A","S">>, <<"c",".","c","l","s">>,
      <<"f",".","F","r","m">>, <<"u",".","c","t","l">>, <<"x",".","t","x","t">>,
      <<"m","o","d">>, <<".","b","a","s">> }

DiagnosticPool ==
    { Diagnostic("error", "mismatched input", Some(<<"m",".","b","a","s">>),
                 Some(1), Some(0)),
      Diagnostic("error", "parser crashed", Some(<<"m",".","b","a","s">>),
                 None, None) }

RECURSIVE SeqsUpTo(_, _)
SeqsUpTo(S, n) ==
    IF n = 0 THEN {<<>>}
    ELSE LET shorter == SeqsUpTo(S, n - 1)
         IN  shorter \cup {Append(q, x) : q \in {y \in shorter : Len(y) = n - 1},
                                          x \in S}

Args_Foo ==
    << Arg(Some(<<"a">>), TRUE, FALSE, Some(Text_AsInteger), None),
       Arg(Some(<<"b">>), FALSE, TRUE, None, Some(<<"5">>)) >>

MixedNodes ==
    { HeaderNode(TRUE, << <<"1",".","0">> >>),
      HeaderNode(FALSE, <<>>),
      AttributeNode(Some(Text_VB_Name), << Quoted(<<"A">>) >>),
      AttributeNode(None, << Quoted(<<"A">>) >>),
      OptionPrivateModuleNode,
      NoPosition(OptionBaseNode(<<>>)),
      RoutineNode("subStmt", Some(Text_Foo), Some(Text_Private), FALSE,
                  Some(Args_Foo), None),
      NoPosition(RoutineNode("functionStmt", None, None, FALSE, None, None)) }

EnvelopeInit(files, trees, diags) ==
    /\ pc = "start"
    /\ source_path \in files
    /\ parse_tree \in trees
    /\ diagnostics \in diags
    /\ walked = <<>>
    /\ collector = None
    /\ doc = None
    /\ payload = None
    /\ NoParse
    /\ NoRebuild
    /\ NoMain
    /\ NoLit

Init == EnvelopeInit(Files, {"None", "Tree"}, SeqsUpTo(DiagnosticPool, MaxDiags))

Next ==
    \/ BuildNoTree
    \/ StartWalk
    \/ Walk(MixedNodes, MaxTree)
    \/ EndWalk
    \/ Dumps

Spec == Init /\ [][Next]_vars

(***************************************************************************)
(* The handlers of one declaration family at a time, on longer trees.      *)
(***************************************************************************)
AttributeNodes ==
    { AttributeNode(Some(Text_VB_Name), << Quoted(<<"A">>) >>),
      AttributeNode(Some(Text_VB_Name), << Quoted(<<"B">>) >>),
      AttributeNode(Some(Text_VB_NAME), << Quoted(<<"B">>), Quoted(<<"A">>) >>),
      AttributeNode(Some(Text_vb_name), << <<"T","r","u","e">> >>),
      AttributeNode(Some(Text_VB_Name), << <<"7">> >>),
      AttributeNode(Some(Text_VB_Name), <<>>),
      AttributeNode(Some(Text_VB_Name), << Quoted(<<>>) >>),
      AttributeNode(Some(Text_VB_Exposed), << Quoted(<<"B">>) >>),
      HeaderNode(FALSE, << <<"1",".","0">> >>) }

OptionNodes ==
    { OptionBaseNode(<<>>),
      OptionBaseNode(<< <<"0">> >>),
      OptionBaseNode(<< <<"1">> >>),
      NoPosition(OptionBaseNode(<< <<"0","1">> >>)),
      OptionCompareNode(TRUE),
      OptionCompareNode(FALSE),
      OptionExplicitNode,
      OptionPrivateModuleNode }

RoutineNodes ==
    { RoutineNode("subStmt", Some(Text_Foo), Some(Text_Private), FALSE,
                  Some(Args_Foo), None),
      NoPosition(RoutineNode("subStmt", None, None, FALSE, None, None)),
      RoutineNode("functionStmt", Some(Text_Bar), Some(Text_Public), FALSE,
                  Some(<<>>), Some(Text_AsInteger)),
      NoPosition(RoutineNode("functionStmt", None, None, FALSE, None, Some(Text_As))),
      RoutineNode("propertyGetStmt", Some(Text_Foo), None, TRUE, None, None),
      RoutineNode("propertyLetStmt", Some(Text_Foo), None, FALSE, None, None),
      RoutineNode("propertySetStmt", Some(Text_Foo), Some(Text_Public), FALSE,
                  None, None),
      RoutineNode("propertySetStmt", None, None, FALSE, None, None) }

InitTree ==
    EnvelopeInit({<<"m",".","b","a","s">>, <<"c",".","c","l","s">>}, {"Tree"}, {<<>>})

NextAttr == StartWalk \/ Walk(AttributeNodes, MaxDecls) \/ EndWalk
SpecAttr == InitTree /\ [][NextAttr]_vars

NextOpt == StartWalk \/ Walk(OptionNodes, MaxDecls) \/ EndWalk
SpecOpt == InitTree /\ [][NextOpt]_vars

NextMem == StartWalk \/ Walk(RoutineNodes, MaxDecls) \/ EndWalk
SpecMem == InitTree /\ [][NextMem]_vars

(***************************************************************************)
(* VB6ParserService.parse on one job: the lexer runs on demand under the   *)
(* parser (CommonTokenStream), so the two listeners are called in any      *)
(* interleaving.  events records the calls in the order they happen.       *)
(***************************************************************************)
ErrorLines == {1, 2}

\* CollectingErrorListener.syntaxError
SyntaxError(listener_diags, path, line, column, msg) ==
    Append(listener_diags, Diagnostic("error", msg, Some(path), Some(line), Some(column)))

LexerError ==
    /\ pc = "parsing"
    /\ Len(events) < MaxErrors
    /\ \E line \in ErrorLines :
          /\ lexer_diags' = SyntaxError(lexer_diags, source_path, line, 0,
                                        "token recognition error")
          /\ events' = Append(events, lexer_diags'[Len(lexer_diags')])
    /\ UNCHANGED <<pc, source_path, parse_tree, diagnostics, walked, collector, doc,
                   payload, parser_diags, lit_text, lit_value, lit_again,
                   rebuild_vars, main_vars>>

ParserError ==
    /\ pc = "parsing"
    /\ Len(events) < MaxErrors
    /\ \E line \in ErrorLines :
          /\ parser_diags' = SyntaxError(parser_diags, source_path, line, 0,
                                         "mismatched input")
          /\ events' = Append(events, parser_diags'[Len(parser_diags')])
    /\ UNCHANGED <<pc, source_path, parse_tree, diagnostics, walked, collector, doc,
                   payload, lexer_diags, lit_text, lit_value, lit_again,
                   rebuild_vars, main_vars>>

\* the ParserOutput appended once startRule is over
Output(tree, lexer, parser) ==
    /\ parse_tree' = tree
    /\ diagnostics' = lexer \o parser
    /\ pc' = "parsed"

\* tree = parser.startRule()
StartRuleReturns ==
    /\ pc = "parsing"
    /\ Output("Tree", lexer_diags, parser_diags)
    /\ UNCHANGED <<source_path, walked, collector, doc, payload, events,
                   lexer_diags, parser_diags, lit_text, lit_value, lit_again,
                   rebuild_vars, main_vars>>

\* except RecognitionException: one more syntaxError, no tree
StartRuleRecognitionException ==
    /\ pc = "parsing"
    /\ \E line \in ErrorLines :
          parser_diags' = SyntaxError(parser_diags, source_path, line, 0,
                                      "no viable alternative")
    /\ events' = Append(events, parser_diags'[Len(parser_diags')])
    /\ Output("None", lexer_diags, parser_diags')
    /\ UNCHANGED <<source_path, walked, collector, doc, payload,
                   lexer_diags, lit_text, lit_value, lit_again,
                   rebuild_vars, main_vars>>

\* except Exception: one diagnostic without position, no tree
StartRuleException ==
    /\ pc = "parsing"
    /\ parser_diags' = Append(parser_diags,
                              Diagnostic("error", "exception", Some(source_path),
                                         None, None))
    /\ events' = Append(events, parser_diags'[Len(parser_diags')])
    /\ Output("None", lexer_diags, parser_diags')
    /\ UNCHANGED <<source_path, walked, collector, doc, payload,
                   lexer_diags, lit_text, lit_value, lit_again,
                   rebuild_vars, main_vars>>

InitParse ==
    /\ pc = "parsing"
    /\ source_path \in {<<"m",".","b","a","s">>}
    /\ parse_tree = "None"
    /\ diagnostics = <<>>
    /\ walked = <<>>
    /\ collector = None
    /\ doc = None
    /\ payload = None
    /\ NoParse
    /\ NoRebuild
    /\ NoMain
    /\ NoLit

NextParse ==
    \/ LexerError
    \/ ParserError
    \/ StartRuleReturns
    \/ StartRuleRecognitionException
    \/ StartRuleException

SpecParse == InitParse /\ [][NextParse]_vars

(***************************************************************************)
(* Properties                                                              *)
(***************************************************************************)
Built == pc \in {"built", "dumped"}
Module == Get(doc).body.module

RECURSIVE SelectNodes(_, _)
SelectNodes(nodes, kinds) ==
    IF nodes = <<>> THEN <<>>
    ELSE (IF nodes[1].kind \in kinds THEN <<nodes[1]>> ELSE <<>>)
         \o SelectNodes(Tail(nodes), kinds)

Min(S) == CHOOSE x \in S : \A y \in S : x <= y

\* the attribute declarations that name the module: vb_name in any case,
\* with at least one value
VbNameDecls ==
    {i \in 1..Len(walked) :
        /\ walked[i].kind = "attributeStmt"
        /\ ~IsNone(walked[i].name)
        /\ Lower(Get(walked[i].name)) = Text_vb_name
        /\ walked[i].literals # <<>>}
VbNameOf(i) == PyStr(NormalizeLiteral(walked[i].literals[1]))

\* C1: the document's module name is the string form of the first value of
\* the first vb_name attribute with a value, later ones never override it;
\* with no such attribute it is the filename stem.  Stated for the trees
\* whose vb_name values are all non-empty, where the empty-name fallback of
\* C10 plays no part.
FirstVbNameWins ==
    (Built /\ parse_tree = "Tree" /\ \A i \in VbNameDecls : VbNameOf(i) # <<>>)
    => Module.name = IF VbNameDecls = {} THEN Stem(source_path)
                     ELSE VbNameOf(Min(VbNameDecls))

\* the (type, normalized value) pair an option declaration stands for
OptionType(n) ==
    CASE n.kind = "optionBaseStmt" -> "base"
      [] n.kind = "optionCompareStmt" -> "compare"
      [] n.kind = "optionExplicitStmt" -> "explicit"
      [] n.kind = "optionPrivateModuleStmt" -> "privateModule"
OptionValue(n) ==
    CASE n.kind = "optionBaseStmt" ->
            IF n.literals = <<>> THEN NoneV ELSE NormalizeLiteral(n.literals[1])
      [] n.kind = "optionCompareStmt" ->
            StrV(IF n.flag THEN <<"b","i","n","a","r","y">> ELSE <<"t","e","x","t">>)
      [] OTHER -> BoolV(TRUE)
DeclaredPair(n) == <<OptionType(n), OptionValue(n)>>
RecordPair(r) == <<r.type, IF IsNone(r.value) THEN NoneV ELSE Get(r.value)>>
SamePair(p, q) == p[1] = q[1] /\ PyEq(p[2], q[2])
OptionDecls == {i \in 1..Len(walked) : walked[i].kind \in OptionKinds}
FirstDeclared(p) == Min({i \in OptionDecls : SamePair(DeclaredPair(walked[i]), p)})

\* C2: after any sequence of option declarations the options list has at
\* most one record per (type, normalized value) pair, a record for every
\* declared pair and no other, in order of first occurrence
OptionsDeduplicated ==
    ~IsNone(collector) =>
        LET opts == Get(collector).options
            pair(i) == RecordPair(opts[i])
        IN  /\ \A i, j \in 1..Len(opts) : i # j => ~SamePair(pair(i), pair(j))
            /\ \A k \in OptionDecls :
                  \E i \in 1..Len(opts) : SamePair(pair(i), DeclaredPair(walked[k]))
            /\ \A i \in 1..Len(opts) :
                  \E k \in OptionDecls : SamePair(pair(i), DeclaredPair(walked[k]))
            /\ \A i, j \in 1..Len(opts) :
                  i < j => FirstDeclared(pair(i)) < FirstDeclared(pair(j))
            /\ Built => Module.options = opts

\* Option Compare Text twice, then Option Compare Binary: two records
OptionsDeduplicatedWitness ==
    /\ pc = "built"
    /\ Len(walked) = 3
    /\ walked[1] = OptionCompareNode(FALSE)
    /\ walked[2] = OptionCompareNode(FALSE)
    /\ walked[3] = OptionCompareNode(TRUE)
    /\ Len(Module.options) = 2

\* C3: with an absent tree the module record has empty members, attributes
\* and options, isPrivateModule false and the filename stem as name
MissingTreeSkeleton ==
    (Built /\ parse_tree = "None") =>
        /\ Module.members = <<>>
        /\ Module.attributes = <<>>
        /\ Module.options = <<>>
        /\ Module.isPrivateModule = Some(FALSE)
        /\ Module.name = Stem(source_path)

\* the extension -> kind table of the specification
ExtensionKind(path) ==
    LET ext == Lower(Suffix(path))
    IN  IF ext = <<".","c","l","s">> THEN "class"
        ELSE IF ext = <<".","f","r","m">> THEN "form"
        ELSE IF ext = <<".","c","t","l">> THEN "control"
        ELSE "standard"
HeaderDeclaredClass ==
    \E i \in 1..Len(walked) : walked[i].kind = "moduleHeader" /\ walked[i].flag
PrivateModuleObserved ==
    \E i \in 1..Len(walked) : walked[i].kind = "optionPrivateModuleStmt"

\* C4: the kind is the header's kind if it declared one, else the
\* case-insensitive extension mapping, overridden to privateModule only when
\* the mapping gives standard and a private-module option was observed; with
\* an absent tree it is the extension mapping alone
KindPriority ==
    Built =>
        Module.kind =
            IF parse_tree = "None" THEN ExtensionKind(source_path)
            ELSE IF HeaderDeclaredClass THEN "class"
            ELSE IF ExtensionKind(source_path) = "standard" /\ PrivateModuleObserved
                 THEN "privateModule"
            ELSE ExtensionKind(source_path)

\* a form file whose tree has a private-module option and no class header
KindPriorityWitness ==
    /\ pc = "built"
    /\ parse_tree = "Tree"
    /\ source_path = <<"f",".","F","r","m">>
    /\ PrivateModuleObserved
    /\ ~HeaderDeclaredClass
    /\ Module.kind = "form"

\* C5: build never fails, whatever optional children the nodes lack
BuildNeverFails == pc # "raised"

\* C6: the document carries exactly the envelope's diagnostics, in order, on
\* both paths, and the serialized document lists one entry per diagnostic in
\* that order
DiagnosticsCarried ==
    /\ Built => Get(doc).diagnostics = diagnostics
    /\ pc = "dumped" =>
          LET out == Get(payload).diagnostics
          IN  /\ Len(out) = Len(diagnostics)
              /\ \A i \in 1..Len(out) :
                    /\ out[i].severity = diagnostics[i].severity
                    /\ out[i].message = diagnostics[i].message
                    /\ out[i].sourcePath = diagnostics[i].source_path
                    /\ out[i].line = diagnostics[i].line
                    /\ out[i].column = diagnostics[i].column

\* two different diagnostics serialized after a walk over a tree
DiagnosticsCarriedWitness ==
    /\ pc = "dumped"
    /\ parse_tree = "Tree"
    /\ walked # <<>>
    /\ Len(diagnostics) = 2
    /\ diagnostics[1] # diagnostics[2]

\* C7: the envelope's diagnostics list the error events in the order in
\* which they were detected
DiagnosticsInDetectionOrder == pc = "parsed" => diagnostics = events

MemberKind(kind) ==
    CASE kind = "subStmt" -> "sub"
      [] kind = "functionStmt" -> "function"
      [] kind = "propertyGetStmt" -> "propertyGet"
      [] kind = "propertyLetStmt" -> "propertyLet"
      [] kind = "propertySetStmt" -> "propertySet"

\* C9: the members list has one record per routine declaration, in
\* encounter order, with the matching kind and the declaration's name
\* (absent when the identifier is missing); nothing is deduplicated
MembersInEncounterOrder ==
    ~IsNone(collector) =>
        LET routines == SelectNodes(walked, RoutineKinds)
            members == Get(collector).members
        IN  /\ Len(members) = Len(routines)
            /\ \A i \in 1..Len(members) :
                  /\ members[i].kind = MemberKind(routines[i].kind)
                  /\ members[i].name = routines[i].name
            /\ Built => Module.members = members

\* the same sub declared twice and a routine without identifier
MembersInEncounterOrderWitness ==
    /\ pc = "built"
    /\ Len(Module.members) = 3
    /\ \E i, j, k \in 1..3 :
          /\ i < j
          /\ Module.members[i].kind = Module.members[j].kind
          /\ Module.members[i].name = Module.members[j].name
          /\ ~IsNone(Module.members[i].name)
          /\ IsNone(Module.members[k].name)

\* C10: with a tree, the module name is the collector's discovered name
\* whenever one was discovered, the empty string included, and the stem
\* only when none was
DiscoveredNameKept ==
    (Built /\ parse_tree = "Tree") =>
        Module.name = IF IsNone(Get(collector).module_name) THEN Stem(source_path)
                      ELSE Get(Get(collector).module_name)

\* C8: normalize(render(normalize(t))) = normalize(t) for every literal text t
RoundTripLaw ==
    pc = "renormalized" => Get(lit_again) = Get(lit_value)

\* a literal text fully wrapped in a pair of quote characters q
Wrapped(raw, q) == Len(raw) >= 2 /\ raw[1] = q /\ raw[Len(raw)] = q
Inner(raw) == SubSeq(raw, 2, Len(raw) - 1)

\* C13: for a text fully wrapped in matching quotes the result is the inner
\* text with doubled quotes of the wrapping kind un-escaped, and doubled
\* quotes of the other kind left as they are
SameKindUnescapedOnly ==
    pc = "normalized" =>
        LET raw == Strip(lit_text)
        IN  /\ Wrapped(raw, DQ) => Get(lit_value) = StrV(Undouble(Inner(raw), DQ))
            /\ Wrapped(raw, SQ) => Get(lit_value) = StrV(Undouble(Inner(raw), SQ))

SpecialForm(raw) == HasChar(raw, "#") \/ (raw # <<>> /\ raw[1] = "&")
Unquoted(raw) ==
    raw # <<>> /\ ~(raw[1] = DQ /\ raw[Len(raw)] = DQ)
               /\ ~(raw[1] = SQ /\ raw[Len(raw)] = SQ)
NonBoolean(raw) == Lower(raw) \notin {TrueText, FalseText}

\* C14: a text that contains # or starts with & never becomes an integer;
\* unquoted and non-boolean, it becomes a float when it is float syntax and
\* the trimmed text otherwise; any other unquoted, non-boolean text that is
\* neither integer nor float syntax is the trimmed text unchanged
SpecialFormsPassThrough ==
    pc = "normalized" =>
        LET raw == Strip(lit_text)
            v == Get(lit_value)
        IN  /\ SpecialForm(raw) => v.t # "int"
            /\ (SpecialForm(raw) /\ Unquoted(raw) /\ NonBoolean(raw)) =>
                  IF IsFloatText(raw) THEN v.t = "float" ELSE v = StrV(raw)
            /\ (Unquoted(raw) /\ NonBoolean(raw) /\ ~IsIntText(raw)
                    /\ ~IsFloatText(raw)) => v = StrV(raw)

\* " &1 " (a blank on each side) comes back as the text &1
SpecialFormsPassThroughWitness ==
    /\ pc = "normalized"
    /\ lit_text = <<SP, "&", "1", SP>>
    /\ Get(lit_value) = StrV(<<"&", "1">>)

PrivateModuleRecords(opts) ==
    {i \in 1..Len(opts) : opts[i].type = "privateModule"}
PrivateModuleDecls ==
    {i \in 1..Len(walked) : walked[i].kind = "optionPrivateModuleStmt"}

FlagMatchesOptions ==
    ~IsNone(collector) =>
        LET c == Get(collector)
        IN  /\ c.is_private_module <=> PrivateModuleRecords(c.options) # {}
            /\ Cardinality(PrivateModuleRecords(c.options)) <= 1
            /\ c.is_private_module <=> PrivateModuleDecls # {}

RepeatedPrivateModule ==
    /\ pc = "walking"
    /\ pc' = "walking"
    /\ PrivateModuleDecls # {}
    /\ walked' = Append(walked, OptionPrivateModuleNode)

\* C15: in every state of the collector is_private_module is true exactly
\* when the options list holds a privateModule record, which occurs exactly
\* once, and that is exactly when Option Private Module was declared; a
\* repeated Option Private Module leaves the flag true and the options list
\* unchanged
PrivateFlagMatchesOptions ==
    /\ [](FlagMatchesOptions)
    /\ [][RepeatedPrivateModule =>
             /\ Get(collector').is_private_module
             /\ Get(collector').options = Get(collector).options]_vars

\* Option Private Module declared twice: one record, the flag set
PrivateFlagMatchesOptionsWitness ==
    /\ pc = "walking"
    /\ Cardinality(PrivateModuleDecls) = 2
    /\ Get(collector).is_private_module
    /\ Cardinality(PrivateModuleRecords(Get(collector).options)) = 1


(***************************************************************************)
(* IRBuilder.build called a second time on the same envelope: the same     *)
(* source path, the same tree (the nodes of the first walk, in order) and  *)
(* the same diagnostics.                                                   *)
(***************************************************************************)
\* second build, parse_tree is None
RebuildNoTree ==
    /\ pc = "built"
    /\ parse_tree = "None"
    /\ doc2' = Some(BuildWithoutTree(source_path, diagnostics))
    /\ pc' = "rebuilt"
    /\ UNCHANGED <<source_path, parse_tree, diagnostics, walked, collector, doc,
                   payload, events, lexer_diags, parser_diags, lit_text, lit_value,
                   lit_again, collector2, replayed, main_vars>>

\* a faulty second build: the collector of the first build is used again
StartRewalkCarried ==
    /\ pc = "built"
    /\ parse_tree = "Tree"
    /\ collector2' = collector
    /\ replayed' = 0
    /\ pc' = "rewalking"
    /\ UNCHANGED <<source_path, parse_tree, diagnostics, walked, collector, doc,
                   payload, events, lexer_diags, parser_diags, lit_text, lit_value,
                   lit_again, doc2, main_vars>>

\* second build: collector = ModuleCollector(output.source_path)
StartRewalk ==
    /\ pc = "built"
    /\ parse_tree = "Tree"
    /\ collector2' = Some(NewCollector)
    /\ replayed' = 0
    /\ pc' = "rewalking"
    /\ UNCHANGED <<source_path, parse_tree, diagnostics, walked, collector, doc,
                   payload, events, lexer_diags, parser_diags, lit_text, lit_value,
                   lit_again, doc2, main_vars>>

\* second build: walker.walk leaves the next node of the same tree
Rewalk ==
    /\ pc = "rewalking"
    /\ replayed < Len(walked)
    /\ collector2' = Some(ExitNode(Get(collector2), walked[replayed + 1]))
    /\ replayed' = replayed + 1
    /\ UNCHANGED <<pc, source_path, parse_tree, diagnostics, walked, collector, doc,
                   payload, events, lexer_diags, parser_diags, lit_text, lit_value,
                   lit_again, doc2, main_vars>>

\* second build: the module payload is assembled and returned
EndRewalk ==
    /\ pc = "rewalking"
    /\ replayed = Len(walked)
    /\ doc2' = Some(BuildFromCollector(source_path, Get(collector2), diagnostics))
    /\ pc' = "rebuilt"
    /\ UNCHANGED <<source_path, parse_tree, diagnostics, walked, collector, doc,
                   payload, events, lexer_diags, parser_diags, lit_text, lit_value,
                   lit_again, collector2, replayed, main_vars>>

InitTwice ==
    EnvelopeInit({<<"m",".","b","a","s">>, <<"c",".","c","l","s">>},
                 {"None", "Tree"}, SeqsUpTo(DiagnosticPool, MaxDiags))

NextTwice ==
    \/ BuildNoTree
    \/ StartWalk
    \/ Walk(MixedNodes, MaxTree)
    \/ EndWalk
    \/ RebuildNoTree
    \/ StartRewalk
    \/ Rewalk
    \/ EndRewalk

SpecTwice == InitTwice /\ [][NextTwice]_vars

one_unit_vars ==
    <<source_path, parse_tree, diagnostics, walked, collector, doc, payload,
      events, lexer_diags, parser_diags, lit_text, lit_value, lit_again>>

\* resolved source files, in the order sorted() gives them
UnitPool ==
    << <<"/","a","/","m",".","b","a","s">>,
       <<"/","a","/","m",".","c","l","s">>,
       <<"/","a","/","n",".","f","r","m">>,
       <<"/","b","/","m",".","b","a","s">> >>

\* sorted({p.resolve() for p in files}): distinct paths in sorted order
UnitLists ==
    { SelectSeq(UnitPool, LAMBDA u : u \in {UnitPool[i] : i \in S}) :
        S \in {T \in SUBSET (1..Len(UnitPool)) : Cardinality(T) <= MaxUnits} }

\* nodes a unit's tree may hold
MainNodes ==
    { AttributeNode(Some(Text_VB_Name), << Quoted(<<"A">>) >>),
      AttributeNode(None, << Quoted(<<"A">>) >>),
      OptionPrivateModuleNode }

\* collectors after the walk of a unit's tree of at most one node
MainCollectors ==
    {NewCollector} \cup {ExitNode(NewCollector, n) : n \in {x \in MainNodes : ~Raises(x)}}

\* diagnostics the parse of a unit may report
UnitDiagnostics(u) ==
    { <<>>, << Diagnostic("error", "parser crashed", Some(u), None, None) >> }

\* builder.build(output) for the outputs the parse of a unit may give
UnitModules(u) ==
    {BuildWithoutTree(u, d) : d \in UnitDiagnostics(u)}
        \cup {BuildFromCollector(u, c, d) : c \in MainCollectors, d \in UnitDiagnostics(u)}

JsonSuffix == <<".", "j", "s", "o", "n">>

\* output_dir / f"{module.source_path.stem}.json"
Target(m) == Stem(m.source_path) \o JsonSuffix

HasFile(dir, name) == \E i \in 1..Len(dir) : dir[i].name = name

\* destination.write_text(content): creates the file or replaces its content
WriteText(dir, name, content) ==
    IF HasFile(dir, name)
    THEN [i \in 1..Len(dir) |->
            IF dir[i].name = name THEN [name |-> name, content |-> content] ELSE dir[i]]
    ELSE Append(dir, [name |-> name, content |-> content])

InitMain ==
    /\ pc = "main"
    /\ units \in UnitLists
    /\ modules = <<>>
    /\ out_dir = <<>>
    /\ written = <<>>
    /\ oserror = FALSE
    /\ exit_code = None
    /\ Idle
    /\ NoParse
    /\ NoRebuild
    /\ NoLit

\* service.build_jobs(): every resolved file is read
BuildJobs ==
    /\ pc = "main"
    /\ pc' = "building"
    /\ UNCHANGED <<one_unit_vars, rebuild_vars, main_vars>>

\* service.build_jobs(): read_text raises, main does not return
BuildJobsRaises ==
    /\ pc = "main"
    /\ units # <<>>
    /\ pc' = "crashed"
    /\ UNCHANGED <<one_unit_vars, rebuild_vars, main_vars>>

\* the next unit is parsed and built
BuildUnit ==
    /\ pc = "building"
    /\ Len(modules) < Len(units)
    /\ \E m \in UnitModules(units[Len(modules) + 1]) : modules' = Append(modules, m)
    /\ UNCHANGED <<pc, one_unit_vars, rebuild_vars, units, out_dir, written, oserror,
                   exit_code>>

\* the walk of the next unit's tree raises, main does not return
BuildRaises ==
    /\ pc = "building"
    /\ Len(modules) < Len(units)
    /\ \E n \in MainNodes : Raises(n)
    /\ pc' = "crashed"
    /\ UNCHANGED <<one_unit_vars, rebuild_vars, main_vars>>

\* dump_many: output_dir.mkdir(parents=True, exist_ok=True)
Mkdir ==
    /\ pc = "building"
    /\ Len(modules) = Len(units)
    /\ pc' = "writing"
    /\ UNCHANGED <<one_unit_vars, rebuild_vars, main_vars>>

\* mkdir raises OSError: write_all returns False, main returns 1
MkdirRaises ==
    /\ pc = "building"
    /\ Len(modules) = Len(units)
    /\ oserror' = TRUE
    /\ exit_code' = Some(1)
    /\ pc' = "exited"
    /\ UNCHANGED <<one_unit_vars, rebuild_vars, units, modules, out_dir, written>>

\* dump_many: the next module is written to its target
WriteModule ==
    /\ pc = "writing"
    /\ Len(written) < Len(modules)
    /\ LET m == modules[Len(written) + 1]
       IN  /\ out_dir' = WriteText(out_dir, Target(m), DumpsPayload(m))
           /\ written' = Append(written, Target(m))
    /\ UNCHANGED <<pc, one_unit_vars, rebuild_vars, units, modules, oserror, exit_code>>

\* write_text raises OSError: write_all returns False, main returns 1
WriteRaises ==
    /\ pc = "writing"
    /\ Len(written) < Len(modules)
    /\ oserror' = TRUE
    /\ exit_code' = Some(1)
    /\ pc' = "exited"
    /\ UNCHANGED <<one_unit_vars, rebuild_vars, units, modules, out_dir, written>>

\* dump_many returns, write_all returns True, main returns 0
ReturnSuccess ==
    /\ pc = "writing"
    /\ Len(written) = Len(modules)
    /\ exit_code' = Some(0)
    /\ pc' = "exited"
    /\ UNCHANGED <<one_unit_vars, rebuild_vars, units, modules, out_dir, written, oserror>>

NextMain ==
    \/ BuildJobs
    \/ BuildJobsRaises
    \/ BuildUnit
    \/ BuildRaises
    \/ Mkdir
    \/ MkdirRaises
    \/ WriteModule
    \/ WriteRaises
    \/ ReturnSuccess

SpecMain == InitMain /\ [][NextMain]_vars

\* the output directory holds the serialized document of unit i
HoldsDocumentOf(i) ==
    /\ modules[i].source_path = units[i]
    /\ \E k \in 1..Len(out_dir) : out_dir[k].content = DumpsPayload(modules[i])

\* C11: when main returns 0 the output directory holds, for every one of
\* the resolved source units, a file with that unit's serialized document,
\* and main returns 1 exactly when writing raised OSError
OneResultPerUnit ==
    pc = "exited" =>
        /\ exit_code = Some(1) <=> oserror
        /\ exit_code = Some(0) => \A i \in 1..Len(units) : HoldsDocumentOf(i)

====
